---- MODULE Spec2Model ----
(***************************************************************************)
(* ARS-Simulator: the window wrapper (graphics/window.py) and the robot    *)
(* and goal sub-controllers (commander/ and simulation/ sub_controller).   *)
(*                                                                         *)
(* Python dictionaries are functions from string keys; an exception        *)
(* raised by an operation is recorded in err and ends the operation where  *)
(* the code raises it, keeping the assignments made before that point.     *)
(***************************************************************************)
EXTENDS Integers, Sequences, FiniteSets, TLC

\* ---------------------------------------------------------------- bounds
\* Largest coordinate / direction value the inputs are drawn from.
MaxVal == 1
\* Largest absolute motor speed the manual callbacks are fired up to.
MaxSpeed == 2
\* Number of contexts that may be firing a manual-control callback at once.
NumCallers == 2
\* Largest z-index a sprite is added with.
MaxZ == 1
\* How far outside MinFrameRate .. MaxFrameRate the frame-rate inputs reach.
FrameRateMargin == 2
\* The most events one call of py.event.get() returns.
MaxEvents == 2

\* ------------------------------------------------------- program constants
ROBOT_SIZE == 50
MinFrameRate == 1
MaxFrameRate == 60
DefaultFrameRate == 60

\* Application modes (commander / simulation package constants).
CREATOR == "CREATOR"
MANUAL == "MANUAL"
AppModes == {CREATOR, MANUAL, "OTHER"}

\* The two RobotController classes of the repository.
Variants == {"commander", "simulation"}

SHORTCUT_TEXT_COLOR == "SHORTCUT_TEXT_COLOR"
SHORTCUT_TEXT_COLOR_ACTIVE == "SHORTCUT_TEXT_COLOR_ACTIVE"

\* Event types of the window.
QUIT == "QUIT"
MOUSE_CLICK == "MOUSE_CLICK"
CREATOR_PLACE_ROBOT == "CREATOR_PLACE_ROBOT"
CREATOR_PLACE_GOAL == "CREATOR_PLACE_GOAL"
MANUAL_LEFT_INCREASE == "MANUAL_LEFT_INCREASE"
MANUAL_LEFT_DECREASE == "MANUAL_LEFT_DECREASE"
MANUAL_RIGHT_INCREASE == "MANUAL_RIGHT_INCREASE"
MANUAL_RIGHT_DECREASE == "MANUAL_RIGHT_DECREASE"
MANUAL_BOTH_INCREASE == "MANUAL_BOTH_INCREASE"
ManualTypes ==
    {MANUAL_LEFT_INCREASE, MANUAL_LEFT_DECREASE, MANUAL_RIGHT_INCREASE,
     MANUAL_RIGHT_DECREASE, MANUAL_BOTH_INCREASE}

\* ------------------------------------------------------------ value sets
Vals == 0 .. MaxVal
Positions == Vals \X Vals
\* Where the constructors put the robot: (-ROBOT_SIZE * 2, -ROBOT_SIZE * 2).
OffScreen == << -(ROBOT_SIZE * 2), -(ROBOT_SIZE * 2) >>
RecordKeys == {"x", "y", "direction"}
\* The records from_dict is called with: any subset of the keys present.
DictInputs == UNION {[K -> Vals] : K \in SUBSET RecordKeys}

VARIABLES
    variant,      \* which RobotController class is running
    app_mode,     \* RobotController._app_mode
    toggled,      \* BaseSubController._toggled of the robot controller
    toggle_calls, \* number of RobotController.toggle() calls so far, modulo 2
    goal_toggled, \* BaseSubController._toggled of the goal controller
    text_color,   \* colour of _text_robot ("absent" outside CREATOR mode)
    callbacks,    \* BaseWindow._callbacks, a set of <<type, func>> entries
    sprite_pos,   \* position of the robot sprite
    sprite_dir,   \* direction of the robot sprite
    robot,        \* commander: the motion-model robot (SimRobot)
    ret,          \* return value of the last operation (<<>>: None)
    saved,        \* the document saved last and the sprite it was taken of
    err,          \* exception the last operation raised ("none": it returned)
    last,         \* the last operation and its argument
    mutex,        \* MUTEX: 0 when free, else the caller holding it
    frames,       \* per caller: the manual-control callback it is executing
    sprites,      \* BaseWindow._sprites, <<name, zindex, sprite>> in insertion order
    sprite_list,  \* BaseWindow._sprite_list, <<zindex, sprite>> entries
    frame_rate,   \* BaseWindow._frame_rate
    running,      \* BaseWindow._running
    start_pc,     \* where BaseWindow.start() is ("idle": not called yet)
    events,       \* the events of py.event.get() start() has yet to dispatch
    invoked       \* the callbacks the last operation invoked

\* The controllers' state.
ctlVars ==
    << variant, app_mode, toggled, toggle_calls, goal_toggled, text_color,
       sprite_pos, sprite_dir, robot >>
\* The lock and the callbacks in progress.
lockVars == << mutex, frames >>
\* The window's state other than its callbacks.
winVars == << sprites, sprite_list, frame_rate, running, start_pc, events >>

vars == << ctlVars, callbacks, invoked, ret, saved, err, last, lockVars, winVars >>

\* ------------------------------------------------------------ BaseWindow
\* type in self._callbacks.keys()
Registered(cbs, type) == \E c \in cbs : c[1] = type

\* self._callbacks[type]: what a dispatch to `type` calls.
CallbacksFor(cbs, type) == {c[2] : c \in {e \in cbs : e[1] = type}}

\* on_callback with the old entry kept: the entries of a list, not of a dict.
on_callback_append(cbs, type, func) == cbs \cup {<<type, func>>}

\* self._callbacks[type] = func
on_callback(cbs, type, func) ==
    {c \in cbs : c[1] # type} \cup {<<type, func>>}

\* del self._callbacks[type], for a registered type
remove_callback(cbs, type) == {c \in cbs : c[1] # type}

\* [name for name in self._sprites]
SpriteNames(sp) == {sp[i][1] : i \in 1 .. Len(sp)}

\* self._sprites[name] = (zindex, sprite): a known name keeps its place in
\* the dictionary's order, a new one goes last.
SetSprite(sp, name, zindex, sprite) ==
    IF name \in SpriteNames(sp)
      THEN [i \in 1 .. Len(sp) |->
              IF sp[i][1] = name THEN <<name, zindex, sprite>> ELSE sp[i]]
      ELSE Append(sp, <<name, zindex, sprite>>)

\* self._sprites.pop(name, "")
PopSprite(sp, name) == SelectSeq(sp, LAMBDA e : e[1] # name)

\* list(self._sprites.values())
SpriteValues(sp) == [i \in 1 .. Len(sp) |-> <<sp[i][2], sp[i][3]>>]

\* e placed behind every entry of the sorted list whose key is >= e's key.
InsertByZ(sorted, e) ==
    LET k == Cardinality({i \in 1 .. Len(sorted) : sorted[i][1] >= e[1]}) IN
    SubSeq(sorted, 1, k) \o <<e>> \o SubSeq(sorted, k + 1, Len(sorted))

\* list.sort(key=comp, reverse=True): stable, largest key first.
RECURSIVE SortByZ(_)
SortByZ(list) ==
    IF list = <<>> THEN <<>>
    ELSE InsertByZ(SortByZ(SubSeq(list, 1, Len(list) - 1)), list[Len(list)])

\* _update_sprite_list without the sort: the dictionary's order.
unsorted_sprite_list(sp) == SpriteValues(sp)

\* BaseWindow._update_sprite_list
_update_sprite_list(sp) == SortByZ(SpriteValues(sp))

\* BaseWindow.__init__(window_size, draw_area, frame_rate, flags)
InitWindow(rate) ==
    /\ callbacks = {}
    /\ sprites = <<>>
    /\ sprite_list = <<>>
    /\ frame_rate = rate
    /\ running = FALSE
    /\ start_pc = "idle"
    /\ events = <<>>

\* ------------------------------------------------- sprites, motion model
\* SimRobot(np.array([x, y], dtype=float), ROBOT_SIZE): a robot at rest.
SimRobot(pos) == [pos |-> pos, left |-> 0, right |-> 0]

\* The simulation variant has no motion model.
NoRobot == [pos |-> <<0, 0>>, left |-> 0, right |-> 0]

\* motion_model.robot.Robot: the motor-speed bookkeeping.
accelerate(v) == v + 1
slowdown(v) == v - 1

Nothing == [op |-> "init", a |-> <<>>]

\* The contexts a callback can be fired in, and one that is firing nothing.
Callers == 1 .. NumCallers
Idle == [pc |-> "idle", type |-> "none", side |-> "none", tmp |-> 0, writes |-> <<>>]

\* ------------------------------------------------------- RobotController
\* __init__ of either variant in application mode m.
InitController(v, m) ==
    /\ variant = v
    /\ app_mode = m
    /\ toggled = FALSE
    /\ toggle_calls = 0
    /\ goal_toggled = FALSE
    /\ text_color = IF m = CREATOR THEN SHORTCUT_TEXT_COLOR ELSE "absent"
    /\ callbacks =
         (IF m = CREATOR THEN {<<CREATOR_PLACE_ROBOT, "robot.toggle">>} ELSE {})
         \cup
         (IF m = CREATOR /\ v = "commander"
            THEN {<<CREATOR_PLACE_GOAL, "goal.toggle">>}
            ELSE {})
         \cup
         (IF m = MANUAL /\ v = "commander"
            THEN {<<t, t>> : t \in ManualTypes}
            ELSE {})
    /\ sprites =
         <<<<"sprite_robot", 0, "sprite_robot">>>>
         \o (IF m = CREATOR THEN <<<<"text_robot", 0, "text_robot">>>> ELSE <<>>)
         \o (IF m = CREATOR /\ v = "commander"
               THEN <<<<"text_goal", 0, "text_goal">>>>
               ELSE <<>>)
    /\ sprite_list = _update_sprite_list(sprites)
    /\ frame_rate = DefaultFrameRate
    /\ running = FALSE
    /\ start_pc = "idle"
    /\ events = <<>>
    /\ mutex = 0
    /\ frames = [c \in Callers |-> Idle]
    /\ sprite_pos = OffScreen
    /\ sprite_dir = 0
    /\ robot = IF v = "commander" THEN SimRobot(OffScreen) ELSE NoRobot
    /\ ret = <<>>
    /\ saved = <<>>
    /\ invoked = {}
    /\ err = "none"
    /\ last = Nothing

Init == \E v \in Variants, m \in AppModes : InitController(v, m)

\* BaseSubController.toggle(call): flip _toggled.
BaseToggle == toggled' = ~toggled

\* BaseSubController.is_toggled()
is_toggled == toggled

\* Sprite.set_position / get_position / set_direction / get_direction: the
\* sprite keeps the position and the direction it is given.
set_position(pos) == sprite_pos' = pos
set_direction(dir) == sprite_dir' = dir
get_position == sprite_pos
get_direction == sprite_dir

\* toggle() whose else branch leaves the text in the active colour.
toggle_keep_color ==
    /\ BaseToggle
    /\ toggle_calls' = (toggle_calls + 1) % 2
    /\ callbacks' = IF toggled'
                      THEN on_callback(callbacks, MOUSE_CLICK, "_on_mouse_click")
                      ELSE remove_callback(callbacks, MOUSE_CLICK)
    /\ text_color' = SHORTCUT_TEXT_COLOR_ACTIVE
    /\ err' = "none"

\* toggle() whose else branch leaves the click callback registered.
toggle_keep_callback ==
    /\ BaseToggle
    /\ toggle_calls' = (toggle_calls + 1) % 2
    /\ callbacks' = on_callback(callbacks, MOUSE_CLICK, "_on_mouse_click")
    /\ text_color' = IF toggled' THEN SHORTCUT_TEXT_COLOR_ACTIVE ELSE SHORTCUT_TEXT_COLOR
    /\ err' = "none"

\* RobotController.toggle: flip _toggled (BaseSubController.toggle), then
\* register the click callback and highlight the text, or remove the
\* callback and restore the colour.
toggle ==
    /\ BaseToggle
    /\ toggle_calls' = (toggle_calls + 1) % 2
    /\ IF toggled'
         THEN /\ callbacks' = on_callback(callbacks, MOUSE_CLICK, "_on_mouse_click")
              /\ IF text_color = "absent"
                   THEN UNCHANGED text_color /\ err' = "AttributeError"
                   ELSE text_color' = SHORTCUT_TEXT_COLOR_ACTIVE /\ err' = "none"
         ELSE IF ~Registered(callbacks, MOUSE_CLICK)
                THEN UNCHANGED <<callbacks, text_color>> /\ err' = "KeyError"
                ELSE /\ callbacks' = remove_callback(callbacks, MOUSE_CLICK)
                     /\ IF text_color = "absent"
                          THEN UNCHANGED text_color /\ err' = "AttributeError"
                          ELSE text_color' = SHORTCUT_TEXT_COLOR /\ err' = "none"

\* _on_mouse_click(pos) that places the sprite and stays in toggle mode.
_on_mouse_click_stay(pos) ==
    /\ set_position(pos)
    /\ err' = "none"
    /\ UNCHANGED <<toggled, toggle_calls, callbacks, text_color>>

\* RobotController._on_mouse_click(pos)
_on_mouse_click(pos) ==
    /\ set_position(pos)
    /\ toggle

\* to_dict() with x and y exchanged.
to_dict_swapped(pos, dir) ==
    [robot |-> [x |-> pos[2], y |-> pos[1], direction |-> dir]]

\* RobotController.to_dict(), of a sprite at pos with direction dir.
to_dict(pos, dir) ==
    [robot |-> [x |-> pos[1], y |-> pos[2], direction |-> dir]]

\* from_dict(d) moving the sprite before it looks the direction up.
from_dict_eager(d) ==
    IF "x" \notin DOMAIN d \/ "y" \notin DOMAIN d
      THEN /\ err' = "KeyError"
           /\ UNCHANGED <<sprite_pos, sprite_dir, robot>>
      ELSE IF "direction" \notin DOMAIN d
        THEN /\ set_position(<<d["x"], d["y"]>>)
             /\ err' = "KeyError"
             /\ UNCHANGED <<sprite_dir, robot>>
        ELSE /\ set_position(<<d["x"], d["y"]>>)
             /\ set_direction(d["direction"])
             /\ robot' = IF variant = "commander"
                           THEN SimRobot(<<d["x"], d["y"]>>)
                           ELSE robot
             /\ err' = "none"

\* RobotController.from_dict(d): the three lookups come first, each raising
\* KeyError for a missing key; then the sprite is updated and, in the
\* commander variant, the motion model is rebuilt at (x, y), at rest.
from_dict(d) ==
    IF "x" \notin DOMAIN d \/ "y" \notin DOMAIN d \/ "direction" \notin DOMAIN d
      THEN /\ err' = "KeyError"
           /\ UNCHANGED <<sprite_pos, sprite_dir, robot>>
      ELSE /\ set_position(<<d["x"], d["y"]>>)
           /\ set_direction(d["direction"])
           /\ robot' = IF variant = "commander"
                         THEN SimRobot(<<d["x"], d["y"]>>)
                         ELSE robot
           /\ err' = "none"

\* The closures _motor_left(left) and _motor_right(right) build, as the
\* effect of one whole call on the motion model.
motor_left(r, left) ==
    IF left = -1 THEN [r EXCEPT !.left = slowdown(@)]
    ELSE IF left = 1 THEN [r EXCEPT !.left = accelerate(@)]
    ELSE r

motor_right(r, right) ==
    IF right = -1 THEN [r EXCEPT !.right = slowdown(@)]
    ELSE IF right = 1 THEN [r EXCEPT !.right = accelerate(@)]
    ELSE r

\* _motors_both(left, right): the left closure, then the right one.
motors_both(r, left, right) == motor_right(motor_left(r, left), right)

\* The callbacks __init__ registers in MANUAL mode.
fire(r, type) ==
    CASE type = MANUAL_LEFT_INCREASE -> motor_left(r, 1)
      [] type = MANUAL_LEFT_DECREASE -> motor_left(r, -1)
      [] type = MANUAL_RIGHT_INCREASE -> motor_right(r, 1)
      [] type = MANUAL_RIGHT_DECREASE -> motor_right(r, -1)
      [] type = MANUAL_BOTH_INCREASE -> motors_both(r, 1, 1)

\* Whether loop() advances the motion model.
Driving == variant = "commander" /\ app_mode # CREATOR

\* RobotController.loop without the test of _app_mode: drive() in any mode.
loop_always_drive(mouse, driven) ==
    /\ robot' = [robot EXCEPT !.pos = driven.pos]
    /\ set_position(driven.pos)
    /\ set_direction(driven.angle)

\* RobotController.loop: follow the mouse while toggled; outside CREATOR
\* mode the commander variant then takes angle, x, y from drive().
loop(mouse, driven) ==
    IF Driving
      THEN \* set_position((x, y)) overwrites what the mouse branch stored
           /\ robot' = [robot EXCEPT !.pos = driven.pos]
           /\ set_position(driven.pos)
           /\ set_direction(driven.angle)
      ELSE /\ IF is_toggled THEN set_position(mouse) ELSE UNCHANGED sprite_pos
           /\ UNCHANGED <<sprite_dir, robot>>

\* GoalController.to_dict()
goal_to_dict == [k \in {} |-> 0]

\* ---------------------------------------------------------------- actions
\* What no operation of a controller changes.
fixedVars == << lockVars, winVars, variant, app_mode >>

\* The window dispatches the key 'R' to the registered toggle.
PlaceRobotKey ==
    /\ Registered(callbacks, CREATOR_PLACE_ROBOT)
    /\ toggle
    /\ invoked' = CallbacksFor(callbacks, CREATOR_PLACE_ROBOT)
    /\ ret' = <<>>
    /\ last' = [op |-> "toggle", a |-> <<>>]
    /\ UNCHANGED <<fixedVars, saved, goal_toggled, sprite_pos, sprite_dir, robot>>

\* The window dispatches a mouse click at p to the registered callback, if any.
MouseClick(p) ==
    /\ IF Registered(callbacks, MOUSE_CLICK)
         THEN /\ _on_mouse_click(p)
              /\ invoked' = CallbacksFor(callbacks, MOUSE_CLICK)
         ELSE /\ err' = "none"
              /\ invoked' = {}
              /\ UNCHANGED <<toggled, toggle_calls, callbacks, text_color, sprite_pos>>
    /\ ret' = <<>>
    /\ last' = [op |-> "click", a |-> p]
    /\ UNCHANGED <<fixedVars, saved, goal_toggled, sprite_dir, robot>>

\* The positions py.mouse.get_pos() can return where loop() reads it.
MouseInputs == IF is_toggled THEN Positions ELSE {<<0, 0>>}

\* What drive() can return where loop() calls it: angle and position.
DriveOutputs ==
    IF Driving
      THEN {[pos |-> p, angle |-> ang] : p \in Positions, ang \in Vals}
      ELSE {[pos |-> <<0, 0>>, angle |-> 0]}

\* The main controller's frame: loop() with the mouse at m.
Loop(m, driven) ==
    /\ loop(m, driven)
    /\ invoked' = {}
    /\ ret' = <<>>
    /\ err' = "none"
    /\ last' = [op |-> "loop", a |-> m, driven |-> driven]
    /\ UNCHANGED <<fixedVars, saved, toggled, toggle_calls, goal_toggled,
                   text_color, callbacks>>

\* to_dict(), called on its own.
ToDict ==
    /\ ret' = <<to_dict(get_position, get_direction)>>
    /\ invoked' = {}
    /\ err' = "none"
    /\ last' = [op |-> "to_dict", a |-> <<>>]
    /\ UNCHANGED <<fixedVars, saved, toggled, toggle_calls, goal_toggled,
                   text_color, callbacks, sprite_pos, sprite_dir, robot>>

\* from_dict with a record read from a file.
FromDict(d) ==
    /\ from_dict(d)
    /\ invoked' = {}
    /\ ret' = <<>>
    /\ last' = [op |-> "from_dict", a |-> DOMAIN d]
    /\ UNCHANGED <<fixedVars, saved, toggled, toggle_calls, goal_toggled,
                   text_color, callbacks>>

\* The window dispatches a manual-control key to its registered callback.
ManualKey(type) ==
    /\ Registered(callbacks, type)
    /\ LET r == fire(robot, type) IN
         /\ r.left \in -MaxSpeed .. MaxSpeed
         /\ r.right \in -MaxSpeed .. MaxSpeed
         /\ robot' = r
    /\ invoked' = CallbacksFor(callbacks, type)
    /\ ret' = <<>>
    /\ err' = "none"
    /\ last' = [op |-> "manual", a |-> type]
    /\ UNCHANGED <<fixedVars, saved, toggled, toggle_calls, goal_toggled,
                   text_color, callbacks, sprite_pos, sprite_dir>>

\* The window dispatches the key 'G' to GoalController.toggle.
PlaceGoalKey ==
    /\ Registered(callbacks, CREATOR_PLACE_GOAL)
    /\ goal_toggled' = ~goal_toggled
    /\ invoked' = CallbacksFor(callbacks, CREATOR_PLACE_GOAL)
    /\ ret' = <<>>
    /\ err' = "none"
    /\ last' = [op |-> "goal_toggle", a |-> <<>>]
    /\ UNCHANGED <<fixedVars, saved, toggled, toggle_calls, text_color, callbacks,
                   sprite_pos, sprite_dir, robot>>

\* GoalController.to_dict(), called on its own.
GoalToDict ==
    /\ variant = "commander"
    /\ ret' = <<goal_to_dict>>
    /\ invoked' = {}
    /\ err' = "none"
    /\ last' = [op |-> "goal_to_dict", a |-> <<>>]
    /\ UNCHANGED <<fixedVars, saved, toggled, toggle_calls, goal_toggled,
                   text_color, callbacks, sprite_pos, sprite_dir, robot>>

Next ==
    \/ PlaceRobotKey
    \/ \E p \in Positions : MouseClick(p)
    \/ \E m \in MouseInputs, driven \in DriveOutputs : Loop(m, driven)
    \/ ToDict
    \/ \E d \in DictInputs : FromDict(d)
    \/ \E t \in ManualTypes : ManualKey(t)
    \/ PlaceGoalKey
    \/ GoalToDict

\* The controllers under the window's events and the main controller's calls.
Spec == Init /\ [][Next]_vars

\* ------------------------------------------------------------ persistence
\* The main controller saves the document to_dict() returns.
SaveDocument ==
    /\ saved' = <<[document |-> to_dict(get_position, get_direction),
                    pos |-> sprite_pos, dir |-> sprite_dir]>>
    /\ invoked' = {}
    /\ ret' = <<>>
    /\ err' = "none"
    /\ last' = [op |-> "save", a |-> <<>>]
    /\ UNCHANGED <<fixedVars, toggled, toggle_calls, goal_toggled,
                   text_color, callbacks, sprite_pos, sprite_dir, robot>>

\* from_dict(document[dict_name]): the record saved under "robot".
LoadRecord ==
    /\ saved # <<>>
    /\ from_dict(saved[1].document["robot"])
    /\ invoked' = {}
    /\ ret' = <<>>
    /\ last' = [op |-> "load_record", a |-> <<>>]
    /\ UNCHANGED <<fixedVars, saved, toggled, toggle_calls, goal_toggled,
                   text_color, callbacks>>

\* from_dict(document): the document as to_dict() returned it.
LoadDocument ==
    /\ saved # <<>>
    /\ from_dict(saved[1].document)
    /\ invoked' = {}
    /\ ret' = <<>>
    /\ last' = [op |-> "load_document", a |-> <<>>]
    /\ UNCHANGED <<fixedVars, saved, toggled, toggle_calls, goal_toggled,
                   text_color, callbacks>>

NextPersist ==
    \/ SaveDocument
    \/ LoadRecord
    \/ LoadDocument
    \/ \E d \in DictInputs : FromDict(d)
    \/ \E m \in MouseInputs, driven \in DriveOutputs : Loop(m, driven)

\* Saving and loading, between records read from files and driven frames.
SpecPersist == Init /\ [][NextPersist]_vars

\* ------------------------------------------------- manual-control callbacks
\* The callbacks of MANUAL mode, statement by statement. MUTEX is a
\* process-wide lock: the closures are modelled as fired in up to NumCallers
\* contexts at once, which is the situation the lock is taken for.

\* The motor a callback updates first, and the change it makes to a motor.
FirstSide(type) ==
    IF type \in {MANUAL_RIGHT_INCREASE, MANUAL_RIGHT_DECREASE} THEN "right" ELSE "left"
Change(type) ==
    IF type \in {MANUAL_LEFT_DECREASE, MANUAL_RIGHT_DECREASE} THEN -1 ELSE 1
Touches(type, side) ==
    type = MANUAL_BOTH_INCREASE \/ FirstSide(type) = side

\* The callbacks in progress that still change the motor `side` by `change`.
Pending(side, change) ==
    Cardinality({c \in Callers :
        /\ frames[c].pc # "idle"
        /\ Touches(frames[c].type, side)
        /\ Change(frames[c].type) = change})

\* What the steps of a callback leave alone.
stepVars ==
    << variant, app_mode, toggled, toggle_calls, goal_toggled, text_color,
       sprite_pos, sprite_dir, callbacks, invoked, ret, saved, err, winVars >>

\* The window dispatches a manual-control key: the registered closure starts.
Fire(c, type) ==
    /\ frames[c].pc = "idle"
    /\ Registered(callbacks, type)
    /\ \A side \in {"left", "right"} :
         Touches(type, side) =>
           IF Change(type) = 1
             THEN robot[side] + Pending(side, 1) < MaxSpeed
             ELSE robot[side] - Pending(side, -1) > -MaxSpeed
    /\ frames' = [frames EXCEPT ![c] =
         [pc |-> "acquire", type |-> type, side |-> FirstSide(type), tmp |-> 0,
          writes |-> <<>>]]
    /\ last' = [op |-> "fire", a |-> c]
    /\ UNCHANGED <<stepVars, robot, mutex>>

\* fire() entering its critical section without taking MUTEX.
EnterUnlocked(c) ==
    /\ frames[c].pc = "acquire"
    /\ frames' = [frames EXCEPT ![c].pc = "read"]
    /\ last' = [op |-> "acquire", a |-> c]
    /\ UNCHANGED <<stepVars, robot, mutex>>

\* with MUTEX: wait until the lock is free and take it.
Acquire(c) ==
    /\ frames[c].pc = "acquire"
    /\ mutex = 0
    /\ mutex' = c
    /\ frames' = [frames EXCEPT ![c].pc = "read"]
    /\ last' = [op |-> "acquire", a |-> c]
    /\ UNCHANGED <<stepVars, robot>>

\* accelerate_* / slowdown_*: read the motor speed ...
ReadSpeed(c) ==
    /\ frames[c].pc = "read"
    /\ frames' = [frames EXCEPT ![c].pc = "write", ![c].tmp = robot[frames[c].side]]
    /\ last' = [op |-> "read", a |-> c]
    /\ UNCHANGED <<stepVars, robot, mutex>>

\* ... and write the changed speed back.
WriteSpeed(c) ==
    /\ frames[c].pc = "write"
    /\ robot' = [robot EXCEPT ![frames[c].side] =
                   IF Change(frames[c].type) = 1
                     THEN accelerate(frames[c].tmp)
                     ELSE slowdown(frames[c].tmp)]
    /\ frames' = [frames EXCEPT ![c].pc = "release",
                                ![c].writes = Append(@, frames[c].side)]
    /\ last' = [op |-> "write", a |-> c]
    /\ UNCHANGED <<stepVars, mutex>>

\* Whether the callback c executes goes on to another closure.
MoreToDo(c) ==
    frames[c].type = MANUAL_BOTH_INCREASE /\ frames[c].side = "left"

\* fire() of _motors_both keeping MUTEX over both closures: the left closure
\* does not release it before the right one asks for it.
ReleaseAtEnd(c) ==
    /\ frames[c].pc = "release"
    /\ mutex' = IF MoreToDo(c) THEN mutex ELSE 0
    /\ frames' = [frames EXCEPT ![c] =
         IF MoreToDo(c)
           THEN [frames[c] EXCEPT !.pc = "acquire", !.side = "right", !.tmp = 0]
           ELSE Idle]
    /\ last' = [op |-> "release", a |-> c, returned |-> ~MoreToDo(c),
                type |-> frames[c].type, writes |-> frames[c].writes]
    /\ UNCHANGED <<stepVars, robot>>

\* Leaving the with block releases MUTEX; _motors_both goes on to the right
\* motor's closure, any other callback returns.
Release(c) ==
    /\ frames[c].pc = "release"
    /\ mutex' = 0
    /\ frames' = [frames EXCEPT ![c] =
         IF MoreToDo(c)
           THEN [frames[c] EXCEPT !.pc = "acquire", !.side = "right", !.tmp = 0]
           ELSE Idle]
    /\ last' = [op |-> "release", a |-> c, returned |-> ~MoreToDo(c),
                type |-> frames[c].type, writes |-> frames[c].writes]
    /\ UNCHANGED <<stepVars, robot>>

InitManual == InitController("commander", MANUAL)

NextManual ==
    \E c \in Callers :
        \/ \E t \in ManualTypes : Fire(c, t)
        \/ Acquire(c)
        \/ ReadSpeed(c)
        \/ WriteSpeed(c)
        \/ Release(c)

\* The manual-control callbacks of a commander in MANUAL mode.
SpecManual == InitManual /\ [][NextManual]_vars

\* ------------------------------------------------------ the window alone
\* A window no controller is attached to: the controllers' variables rest.
Detached ==
    /\ variant = "none"
    /\ app_mode = "none"
    /\ toggled = FALSE
    /\ toggle_calls = 0
    /\ goal_toggled = FALSE
    /\ text_color = "absent"
    /\ sprite_pos = OffScreen
    /\ sprite_dir = 0
    /\ robot = NoRobot
    /\ mutex = 0
    /\ frames = [c \in Callers |-> Idle]
    /\ invoked = {}
    /\ ret = <<>>
    /\ saved = <<>>
    /\ err = "none"
    /\ last = Nothing

\* The event types and the functions the window's users register.
WindowTypes == {QUIT, MOUSE_CLICK, CREATOR_PLACE_ROBOT}
Handlers == {"on_quit", "robot.toggle", "_on_mouse_click"}

OnCallback(type, func) ==
    /\ callbacks' = on_callback(callbacks, type, func)
    /\ invoked' = {}
    /\ err' = "none"
    /\ last' = [op |-> "on_callback",
                a |-> [type |-> type, func |-> func,
                       before |-> CallbacksFor(callbacks, type)]]
    /\ UNCHANGED <<ctlVars, lockVars, winVars, ret, saved>>

\* del self._callbacks[type] raises KeyError for a type that has no entry.
RemoveCallback(type) ==
    /\ IF Registered(callbacks, type)
         THEN callbacks' = remove_callback(callbacks, type) /\ err' = "none"
         ELSE UNCHANGED callbacks /\ err' = "KeyError"
    /\ invoked' = {}
    /\ last' = [op |-> "remove_callback", a |-> type]
    /\ UNCHANGED <<ctlVars, lockVars, winVars, ret, saved>>

\* BaseWindow.event with a test of the event type that never succeeds.
event_never_quit(type) ==
    /\ UNCHANGED running
    /\ invoked' = {}
    /\ err' = "none"
    /\ last' = [op |-> "event", a |-> type]

\* BaseWindow.event: a QUIT event clears _running and calls the QUIT
\* callback if there is one; any other event is left to the subclass.
event(type) ==
    /\ IF type = QUIT
         THEN /\ running' = FALSE
              /\ invoked' = CallbacksFor(callbacks, QUIT)
         ELSE /\ UNCHANGED running
              /\ invoked' = {}
    /\ err' = "none"
    /\ last' = [op |-> "event", a |-> type]

\* window.event(e) called by the window's user.
Event(type) ==
    /\ event(type)
    /\ UNCHANGED <<ctlVars, lockVars, callbacks, sprites, sprite_list, frame_rate,
                   start_pc, events, ret, saved>>

InitCallbacks == InitWindow(DefaultFrameRate) /\ Detached

NextCallbacks ==
    \/ \E t \in WindowTypes, f \in Handlers : OnCallback(t, f)
    \/ \E t \in WindowTypes : RemoveCallback(t)
    \/ \E t \in WindowTypes : Event(t)

\* The window's callback registry under any calls of its users.
SpecCallbacks == InitCallbacks /\ [][NextCallbacks]_vars

\* ---------------------------------------------------- BaseWindow.start
\* What py.event.get() can return in one frame: up to MaxEvents events.
EventBatches == UNION {[1 .. n -> WindowTypes] : n \in 0 .. MaxEvents}

\* start(): self._running = True, then the loop is entered at its test.
Start ==
    /\ start_pc \in {"idle", "returned"}
    /\ running' = TRUE
    /\ start_pc' = "test"
    /\ events' = <<>>
    /\ invoked' = {}
    /\ err' = "none"
    /\ last' = [op |-> "start", a |-> "call"]
    /\ UNCHANGED <<ctlVars, lockVars, callbacks, sprites, sprite_list, frame_rate,
                   ret, saved>>

\* while self._running: a set flag polls this frame's events, a cleared
\* flag leaves the loop and start() returns.
LoopTest ==
    /\ start_pc = "test"
    /\ IF running
         THEN /\ \E batch \in EventBatches : events' = batch
              /\ start_pc' = "events"
              /\ last' = [op |-> "start", a |-> "poll"]
         ELSE /\ UNCHANGED events
              /\ start_pc' = "returned"
              /\ last' = [op |-> "start", a |-> "return"]
    /\ invoked' = {}
    /\ err' = "none"
    /\ UNCHANGED <<ctlVars, lockVars, callbacks, sprites, sprite_list, frame_rate,
                   running, ret, saved>>

\* for event in py.event.get(): self.event(event)
Dispatch ==
    /\ start_pc = "events"
    /\ events # <<>>
    /\ event(Head(events))
    /\ events' = Tail(events)
    /\ UNCHANGED <<ctlVars, lockVars, callbacks, sprites, sprite_list, frame_rate,
                   start_pc, ret, saved>>

\* The events are done: the sprites and the window's content are drawn.
DrawFrame ==
    /\ start_pc = "events"
    /\ events = <<>>
    /\ start_pc' = "tick"
    /\ invoked' = {}
    /\ err' = "none"
    /\ last' = [op |-> "start", a |-> "draw"]
    /\ UNCHANGED <<ctlVars, lockVars, callbacks, sprites, sprite_list, frame_rate,
                   running, events, ret, saved>>

\* self._clock.tick(self._frame_rate); py.display.flip(): back to the test.
Tick ==
    /\ start_pc = "tick"
    /\ start_pc' = "test"
    /\ invoked' = {}
    /\ err' = "none"
    /\ last' = [op |-> "start", a |-> "tick"]
    /\ UNCHANGED <<ctlVars, lockVars, callbacks, sprites, sprite_list, frame_rate,
                   running, events, ret, saved>>

NextStart ==
    \/ Start
    \/ LoopTest
    \/ Dispatch
    \/ DrawFrame
    \/ Tick
    \/ \E t \in WindowTypes, f \in Handlers : OnCallback(t, f)
    \/ \E t \in WindowTypes : RemoveCallback(t)

\* The main loop of a window whose users register and remove callbacks.
SpecStart == InitCallbacks /\ [][NextStart]_vars

\* start() runs on: every statement of its loop returns (the callbacks are
\* taken to return, and tick() waits a bounded time).
SpecStartFair == SpecStart /\ WF_vars(LoopTest \/ Dispatch \/ DrawFrame \/ Tick)

\* The names and objects of the sprites the window's users add.
SpriteNameSet == {"sprite_robot", "text_robot", "text_goal"}
SpriteObjects == {"Robot", "Text"}

\* BaseWindow.add_sprite(name, sprite, zindex)
AddSprite(name, sprite, zindex) ==
    /\ sprites' = SetSprite(sprites, name, zindex, sprite)
    /\ sprite_list' = _update_sprite_list(sprites')
    /\ err' = "none"
    /\ last' = [op |-> "add_sprite",
                a |-> [name |-> name, sprite |-> sprite, zindex |-> zindex]]
    /\ UNCHANGED <<ctlVars, lockVars, callbacks, invoked, frame_rate, running, start_pc, events,
                   ret, saved>>

\* BaseWindow.remove_sprite(name)
RemoveSprite(name) ==
    /\ sprites' = PopSprite(sprites, name)
    /\ sprite_list' = _update_sprite_list(sprites')
    /\ err' = "none"
    /\ last' = [op |-> "remove_sprite", a |-> [name |-> name]]
    /\ UNCHANGED <<ctlVars, lockVars, callbacks, invoked, frame_rate, running, start_pc, events,
                   ret, saved>>

\* start(): one frame draws the sprites in the order of _sprite_list.
DrawSprites ==
    /\ ret' = <<[i \in 1 .. Len(sprite_list) |-> sprite_list[i][2]]>>
    /\ err' = "none"
    /\ last' = [op |-> "draw", a |-> <<>>]
    /\ UNCHANGED <<ctlVars, lockVars, winVars, callbacks, invoked, saved>>

InitSprites == InitWindow(DefaultFrameRate) /\ Detached

NextSprites ==
    \/ \E n \in SpriteNameSet, o \in SpriteObjects, z \in 0 .. MaxZ : AddSprite(n, o, z)
    \/ \E n \in SpriteNameSet : RemoveSprite(n)
    \/ DrawSprites

\* The window's sprites under any calls of its users.
SpecSprites == InitSprites /\ [][NextSprites]_vars

\* The values a frame rate is asked to be.
FrameRateInputs ==
    (MinFrameRate - FrameRateMargin) .. (MaxFrameRate + FrameRateMargin)

\* The frame_rate setter storing the value before it validates it.
frame_rate_store_first(rate) ==
    /\ frame_rate' = rate
    /\ err' = IF rate < MinFrameRate \/ rate > MaxFrameRate
                THEN "ValueError"
                ELSE "none"

\* BaseWindow.frame_rate, the setter
frame_rate_setter(rate) ==
    IF rate < MinFrameRate \/ rate > MaxFrameRate
      THEN err' = "ValueError" /\ UNCHANGED frame_rate
      ELSE frame_rate' = rate /\ err' = "none"

SetFrameRate(rate) ==
    /\ frame_rate_setter(rate)
    /\ last' = [op |-> "set_frame_rate", a |-> rate]
    /\ UNCHANGED <<ctlVars, lockVars, callbacks, invoked, sprites, sprite_list,
                   running, start_pc, events, ret, saved>>

\* __init__ stores the frame_rate it is given as it is.
InitFrame == \E rate \in FrameRateInputs : InitWindow(rate) /\ Detached

NextFrame == \E rate \in FrameRateInputs : SetFrameRate(rate)

\* The window's frame rate under any assignments.
SpecFrame == InitFrame /\ [][NextFrame]_vars

\* ----------------------------------------------------------------- claims
\* C1 as stated: from_dict applied to the result of to_dict() returns
\* normally and leaves the sprite with the x, y and direction that were
\* serialized.
C1_RoundTripOfResult ==
    last.op = "load_document" =>
        /\ err = "none"
        /\ sprite_pos = saved[1].pos
        /\ sprite_dir = saved[1].dir

\* C1 amended: from_dict applied to the record that to_dict() stored under
\* the key "robot" returns normally and leaves the sprite with the x, y and
\* direction that were serialized, whatever the sprite was in between.
C1_RoundTripOfRecord ==
    last.op = "load_record" =>
        /\ err = "none"
        /\ sprite_pos = saved[1].pos
        /\ sprite_dir = saved[1].dir

\* A record with different x and y was saved and then loaded.
C1_Witness ==
    /\ last.op = "load_record"
    /\ err = "none"
    /\ sprite_pos[1] # sprite_pos[2]
    /\ sprite_pos # OffScreen

\* C2: in CREATOR mode, after an even number of toggle() calls the
\* controller is not toggled and the shortcut text has the inactive colour;
\* after an odd number it is toggled and the text has the active colour.
C2_ToggleTwice ==
    app_mode = CREATOR =>
        IF toggle_calls = 0
          THEN ~toggled /\ text_color = SHORTCUT_TEXT_COLOR
          ELSE toggled /\ text_color = SHORTCUT_TEXT_COLOR_ACTIVE

\* The key has just toggled the controller off again.
C2_Witness ==
    /\ app_mode = CREATOR
    /\ last.op = "toggle"
    /\ toggle_calls = 0
    /\ ~toggled
    /\ text_color = SHORTCUT_TEXT_COLOR

\* C3: a mouse click while the controller is toggled puts the sprite at the
\* click position, leaves toggle mode, and to_dict() then reports that
\* position; a mouse click while it is not toggled moves nothing.
C3_ClickCommits ==
    [][last'.op = "click" =>
         IF toggled
           THEN /\ sprite_pos' = last'.a
                /\ ~toggled'
                /\ to_dict(sprite_pos', sprite_dir').robot.x = last'.a[1]
                /\ to_dict(sprite_pos', sprite_dir').robot.y = last'.a[2]
           ELSE /\ sprite_pos' = sprite_pos
                /\ ~toggled']_vars

\* A click was dispatched to the controller and committed the placement.
C3_Witness ==
    /\ last.op = "click"
    /\ "_on_mouse_click" \in invoked
    /\ sprite_pos = last.a
    /\ ~toggled

\* C4: a callback reads or writes a motor speed only while it holds MUTEX,
\* at most one callback is between its read and its write, and the speed a
\* callback is about to write back is computed from the motor's current
\* speed: no other update came in between.
C4_UpdatesUnderMutex ==
    /\ \A c \in Callers : frames[c].pc \in {"read", "write"} => mutex = c
    /\ Cardinality({c \in Callers : frames[c].pc \in {"read", "write"}}) <= 1
    /\ \A c \in Callers :
         frames[c].pc = "write" => frames[c].tmp = robot[frames[c].side]

\* One callback is inside its update while another waits for the lock, on
\* the same motor.
C4_Witness ==
    \E c1, c2 \in Callers :
        /\ frames[c1].pc = "write"
        /\ frames[c2].pc = "acquire"
        /\ frames[c1].side = frames[c2].side
        /\ mutex = c1

\* C5: the window holds at most one callback per event type; on_callback
\* replaces what was registered for the type, the last registration wins;
\* an event calls at most one callback.
C5_OneCallbackPerType ==
    /\ \A t \in WindowTypes : Cardinality({c \in callbacks : c[1] = t}) <= 1
    /\ last.op = "on_callback" =>
         CallbacksFor(callbacks, last.a.type) = {last.a.func}
    /\ last.op = "event" => Cardinality(invoked) <= 1

\* A registration has replaced a different one for the same type.
C5_Witness ==
    /\ last.op = "on_callback"
    /\ last.a.before # {}
    /\ last.a.before # {last.a.func}
    /\ CallbacksFor(callbacks, last.a.type) = {last.a.func}

\* The draw list holds each registered sprite's entry once.
SameEntries(list, sp) ==
    /\ Len(list) = Len(sp)
    /\ \A e \in {<<sp[i][2], sp[i][3]>> : i \in 1 .. Len(sp)} :
         Cardinality({i \in 1 .. Len(list) : list[i] = e})
           = Cardinality({i \in 1 .. Len(sp) : <<sp[i][2], sp[i][3]>> = e})

\* C6: the draw list holds exactly the registered sprites, one entry per
\* name, by non-increasing z-index; add_sprite sets the name's entry,
\* remove_sprite removes it and does nothing for an unknown name; a frame
\* draws the sprites in the order of the list.
C6_DrawList ==
    /\ [](/\ Cardinality(SpriteNames(sprites)) = Len(sprites)
          /\ SameEntries(sprite_list, sprites)
          /\ \A i, j \in 1 .. Len(sprite_list) :
               i < j => sprite_list[i][1] >= sprite_list[j][1]
          /\ last.op = "add_sprite" =>
               \E i \in 1 .. Len(sprites) :
                   sprites[i] = <<last.a.name, last.a.zindex, last.a.sprite>>
          /\ last.op = "remove_sprite" => last.a.name \notin SpriteNames(sprites)
          /\ last.op = "draw" =>
               ret[1] = [i \in 1 .. Len(sprite_list) |-> sprite_list[i][2]])
    /\ [][(last'.op = "remove_sprite" /\ last'.a.name \notin SpriteNames(sprites))
            => UNCHANGED <<sprites, sprite_list>>]_vars

\* A sprite added after one with a lower z-index is drawn before it.
C6_Witness ==
    /\ last.op = "draw"
    /\ Len(sprites) = 3
    /\ sprites[1][2] < sprites[3][2]
    /\ sprite_list[1] = <<sprites[3][2], sprites[3][3]>>

\* C7: assigning a frame rate below 1 or above 60 raises ValueError and
\* leaves the stored frame rate as it was; assigning one in 1..60 stores it.
C7_FrameRateSetter ==
    [][last'.op = "set_frame_rate" =>
         IF last'.a < MinFrameRate \/ last'.a > MaxFrameRate
           THEN err' = "ValueError" /\ frame_rate' = frame_rate
           ELSE err' = "none" /\ frame_rate' = last'.a]_vars

\* An assignment of 61 was refused after 60 had been stored.
C7_Witness ==
    /\ last.op = "set_frame_rate"
    /\ last.a = MaxFrameRate + 1
    /\ err = "ValueError"
    /\ frame_rate = MaxFrameRate

\* C8: from_dict with a record that lacks one of x, y, direction raises
\* KeyError and changes neither the sprite nor the motion-model robot.
C8_MissingKey ==
    [][(last'.op = "from_dict" /\ last'.a # RecordKeys) =>
         /\ err' = "KeyError"
         /\ UNCHANGED <<sprite_pos, sprite_dir, robot>>]_vars

\* from_dict failed on a record that has x and y and lacks direction, on a
\* sprite placed before.
C8_Witness ==
    /\ last.op = "from_dict"
    /\ last.a = {"x", "y"}
    /\ err = "KeyError"
    /\ sprite_pos # OffScreen

\* C9: to_dict() returns a mapping whose only key is robot, holding exactly
\* x, y and direction with the sprite's current values; GoalController's
\* to_dict() returns an empty record.
C9_DocumentShape ==
    /\ last.op = "to_dict" =>
         /\ DOMAIN ret[1] = {"robot"}
         /\ DOMAIN ret[1].robot = RecordKeys
         /\ ret[1].robot.x = sprite_pos[1]
         /\ ret[1].robot.y = sprite_pos[2]
         /\ ret[1].robot.direction = sprite_dir
    /\ last.op = "goal_to_dict" => DOMAIN ret[1] = {}

\* to_dict() returned the record of a sprite whose x and y differ.
C9_Witness ==
    /\ last.op = "to_dict"
    /\ ret # <<>>
    /\ sprite_pos[1] # sprite_pos[2]
    /\ sprite_pos # OffScreen

\* C10: in CREATOR mode the MOUSE_CLICK callback is registered exactly while
\* the controller is toggled, and no toggle, by key or by click, raises.
C10_ClickRegisteredIffToggled ==
    app_mode = CREATOR =>
        /\ Registered(callbacks, MOUSE_CLICK) <=> toggled
        /\ last.op \in {"toggle", "click"} => err = "none"

\* The click handler has toggled the controller off and removed itself.
C10_Witness ==
    /\ app_mode = CREATOR
    /\ last.op = "click"
    /\ "_on_mouse_click" \in invoked
    /\ ~toggled
    /\ ~Registered(callbacks, MOUSE_CLICK)

\* C11: the frame rate of a window is between 1 and 60 in every reachable
\* state: after construction with any frame_rate argument and after any
\* successful or failed assignment.
C11_FrameRateInRange ==
    frame_rate \in MinFrameRate .. MaxFrameRate

\* C12: no callback asks for MUTEX while it holds it; whoever holds MUTEX is
\* inside a with block, so the lock is free when a callback has returned and
\* a waiting callback is never stuck behind itself or behind a callback that
\* returned; each write changes its motor by exactly the callback's step;
\* the both-motors callback returns after one write to the left motor and
\* then one to the right, any other callback after one write to its motor.
C12_NoReentryNoDeadlock ==
    /\ [](/\ \A c \in Callers : frames[c].pc = "acquire" => mutex # c
          /\ mutex # 0 => frames[mutex].pc \in {"read", "write", "release"}
          /\ (last.op = "release" /\ last.returned) =>
               /\ frames[last.a].pc = "idle"
               /\ mutex # last.a
               /\ last.writes =
                    IF last.type = MANUAL_BOTH_INCREASE
                      THEN <<"left", "right">>
                      ELSE <<FirstSide(last.type)>>)
    /\ [][last'.op = "write" =>
            LET f == frames[last'.a] IN
            /\ robot'[f.side] = robot[f.side] + Change(f.type)
            /\ \A o \in {"left", "right"} \ {f.side} : robot'[o] = robot[o]]_vars

\* The both-motors callback has returned, having accelerated both motors,
\* and left MUTEX free.
C12_Witness ==
    /\ last.op = "release"
    /\ last.returned
    /\ last.type = MANUAL_BOTH_INCREASE
    /\ last.writes = <<"left", "right">>
    /\ robot.left >= 1
    /\ robot.right >= 1
    /\ mutex = 0

\* C13: the event() that handles a QUIT event clears the running flag and
\* invokes the callback registered for QUIT, and nothing if there is none,
\* without an error; once the flag is cleared inside start(), it stays
\* cleared while the iteration goes on through its remaining events, the
\* drawing and the tick, polls no further events, and start() returns at the
\* next loop test and nowhere else, which it reaches; only the event() of a
\* QUIT event clears the flag.
C13_QuitStopsLoop ==
    /\ [][(last'.op = "event" /\ last'.a = QUIT) =>
            /\ ~running'
            /\ err' = "none"
            /\ invoked' = CallbacksFor(callbacks, QUIT)
            /\ Cardinality(invoked') = IF Registered(callbacks, QUIT) THEN 1 ELSE 0]_vars
    /\ [][(running /\ ~running') =>
            /\ last'.op = "event"
            /\ last'.a = QUIT]_vars
    /\ [][(~running /\ start_pc \in {"events", "tick", "test"}) =>
            /\ ~running'
            /\ Len(events') <= Len(events)
            /\ start_pc = "events" => start_pc' \in {"events", "tick"}
            /\ start_pc = "tick" => start_pc' \in {"tick", "test"}
            /\ start_pc = "test" => start_pc' \in {"test", "returned"}
            /\ last'.op = "start" => start_pc' # start_pc]_vars
    /\ [][(start_pc' = "returned" /\ start_pc # "returned") =>
            /\ start_pc = "test"
            /\ ~running]_vars
    /\ [](start_pc = "returned" => ~running)
    /\ (~running /\ start_pc \in {"events", "tick", "test"}) ~> (start_pc = "returned")

\* start() has returned from a window that has a QUIT callback.
C13_Witness ==
    /\ start_pc = "returned"
    /\ ~running
    /\ last = [op |-> "start", a |-> "return"]
    /\ Registered(callbacks, QUIT)

\* C14: a loop() in CREATOR mode leaves the motion model and the sprite's
\* direction alone and sets the sprite's position to the mouse position if
\* the controller is toggled, leaving it alone if not; a loop() of the
\* commander variant outside CREATOR mode sets the sprite's position and
\* direction, and the robot's position, to what drive() returned.
C14_LoopEffect ==
    [][last'.op = "loop" =>
         /\ app_mode = CREATOR =>
              /\ robot' = robot
              /\ sprite_dir' = sprite_dir
              /\ sprite_pos' = IF toggled THEN last'.a ELSE sprite_pos
         /\ (variant = "commander" /\ app_mode # CREATOR) =>
              /\ sprite_pos' = last'.driven.pos
              /\ sprite_dir' = last'.driven.angle
              /\ robot'.pos = last'.driven.pos]_vars

\* A loop() outside CREATOR mode has put the sprite where drive() said,
\* away from where a robot starts.
C14_Witness ==
    /\ last.op = "loop"
    /\ variant = "commander"
    /\ app_mode # CREATOR
    /\ sprite_pos = last.driven.pos
    /\ sprite_dir = last.driven.angle
    /\ sprite_pos # OffScreen
    /\ sprite_dir # 0
====
